---- MODULE Spec2Model ----
(***************************************************************************)
(* Model of digisac_sender_text_v01.py: phone normalisation, contact       *)
(* loading, the result ledger (append_row), the sender and the dispatch    *)
(* loop of __main__.                                                       *)
(*                                                                         *)
(* Text is modelled as a sequence of one-character strings, so that        *)
(* str.strip, the isdigit filter, str.lstrip("0") and str.startswith are   *)
(* computed character by character as the interpreter computes them.       *)
(***************************************************************************)
EXTENDS Integers, Sequences, FiniteSets, TLC

VARIABLES
    pc,        \* position of the running script / of the function under test
    raw,       \* normalize_phone: the argument
    out,       \* normalize_phone: the returned value
    cfgOK,     \* API_V1, TOKEN and SRVID are all non-empty
    image,     \* IMAGE: [kind, exists, fmt, size, converted]
    delay,     \* DELAY
    limit,     \* args.limit
    table,     \* the parsed input file: [header, rows]
    contacts,  \* contacts (list of [nome, telefone])
    i,         \* the loop variable of the dispatch loop
    ledger,    \* resultado_envio.csv: [exists, lines]
    ledger0,   \* the ledger file as the run found it
    hist,      \* what the outside world answered for contact 1..i
    ops,       \* how often each step of the sender ran
    sleeps     \* the values of i after which time.sleep was called

vars == <<pc, raw, out, cfgOK, image, delay, limit, table, contacts, i,
          ledger, ledger0, hist, ops, sleeps>>

----------------------------------------------------------------------------
(* Bounds of the model *)

MaxHead == 3       \* free characters at the start of a raw phone string
MaxTail == 10      \* longest run of a repeated digit that follows them
MaxRows == 2       \* data rows of the input table
MaxLimit == 1      \* largest --limit
MaxAppends == 3    \* append_row calls made on one ledger path

----------------------------------------------------------------------------
(* Text helpers *)

DigitChars == {"0", "1", "2", "3", "4", "5", "6", "7", "8", "9"}
SpaceChars == {" "}

\* str.isdigit on one character
IsDigit(ch) == ch \in DigitChars

\* str.startswith
StartsWith(s, p) == Len(s) >= Len(p) /\ SubSeq(s, 1, Len(p)) = p

RECURSIVE LStripSet(_, _)
\* str.lstrip(chars)
LStripSet(s, chars) ==
    IF s # <<>> /\ Head(s) \in chars THEN LStripSet(Tail(s), chars) ELSE s

RECURSIVE RStripSet(_, _)
\* str.rstrip(chars)
RStripSet(s, chars) ==
    IF s # <<>> /\ s[Len(s)] \in chars
    THEN RStripSet(SubSeq(s, 1, Len(s) - 1), chars)
    ELSE s

\* str.strip()
Strip(s) == RStripSet(LStripSet(s, SpaceChars), SpaceChars)

RECURSIVE JoinDigits(_)
\* "".join(ch for ch in s if ch.isdigit())
JoinDigits(s) ==
    IF s = <<>> THEN <<>>
    ELSE IF IsDigit(Head(s)) THEN <<Head(s)>> \o JoinDigits(Tail(s))
    ELSE JoinDigits(Tail(s))

RECURSIVE Rep(_, _)
Rep(ch, n) == IF n = 0 THEN <<>> ELSE <<ch>> \o Rep(ch, n - 1)

RECURSIVE SeqsUpTo(_, _)
\* all sequences over S of length <= n
SeqsUpTo(S, n) ==
    IF n = 0 THEN {<<>>}
    ELSE LET shorter == SeqsUpTo(S, n - 1)
         IN  shorter \cup {Append(s, x) : s \in shorter, x \in S}

----------------------------------------------------------------------------
(* normalize_phone *)

MinPrefixLen == 10
CountryCode == <<"5", "5">>

\* a plausible slip: the prefix is added whenever it is missing
normalize_phone_always_prefix(r) ==
    LET s0 == Strip(r)
        s1 == JoinDigits(s0)
        s2 == LStripSet(s1, {"0"})
    IN  IF ~StartsWith(s2, CountryCode) THEN CountryCode \o s2 ELSE s2

\* a plausible slip: leading zeros are kept
normalize_phone_keep_zeros(r) ==
    LET s0 == Strip(r)
        s1 == JoinDigits(s0)
    IN  IF Len(s1) >= MinPrefixLen /\ ~StartsWith(s1, CountryCode)
        THEN CountryCode \o s1 ELSE s1

normalize_phone(r) ==
    LET s0 == Strip(r)
        s1 == JoinDigits(s0)
        s2 == LStripSet(s1, {"0"})
    IN  IF Len(s2) >= MinPrefixLen /\ ~StartsWith(s2, CountryCode)
        THEN CountryCode \o s2 ELSE s2

\* raw phone strings: up to MaxHead free characters, then a run of one digit
HeadAlphabet == {"0", "5", "1", "+", " "}
RawInputs ==
    {h \o Rep(d, n) : h \in SeqsUpTo(HeadAlphabet, MaxHead),
                      d \in {"9"}, n \in 0..MaxTail}

----------------------------------------------------------------------------
(* The input table and load_contacts_csv *)

\* header cells as they stand in the file, and (h or "").strip().lower()
HeaderCanon(h) ==
    CASE h = "Telefone " -> "telefone"
      [] h = " NOME"     -> "nome"
      [] h = "Phone"     -> "phone"
      [] h = "Name"      -> "name"
      [] OTHER           -> h

PhoneAliases == {"telefone", "celular", "celular.1", "fone", "phone", "number"}
NameAliases == {"nome", "name"}

\* header = [ (h or "").strip().lower()... for h in next(reader, []) ]
CanonHeader(header) == [k \in 1..Len(header) |-> HeaderCanon(header[k])]

\* positions of the header cells that are in the alias set
AliasColumns(header, aliases) ==
    {k \in 1..Len(header) : CanonHeader(header)[k] \in aliases}

\* next(i for i,h in enumerate(header) if h in (...)); 0 stands for "none"
FirstColumn(header, aliases) ==
    IF AliasColumns(header, aliases) = {} THEN 0
    ELSE CHOOSE k \in AliasColumns(header, aliases) :
             \A m \in AliasColumns(header, aliases) : k <= m

\* any(line)
AnyField(line) == \E k \in 1..Len(line) : line[k] # <<>>

\* line[idx] if idx < len(line) else ""
FieldOr(line, idx) == IF idx >= 1 /\ idx <= Len(line) THEN line[idx] ELSE <<>>

RECURSIVE LoadRows(_, _, _)
\* a slip: the row is kept whenever its raw phone cell is non-empty
LoadRowsRawTest(rows, idx_tel, idx_nome) ==
    IF rows = <<>> THEN <<>>
    ELSE LET line == Head(rows)
             rest == LoadRows(Tail(rows), idx_tel, idx_nome)
             telefone == normalize_phone(FieldOr(line, idx_tel))
             nome == Strip(FieldOr(line, idx_nome))
         IN  IF ~AnyField(line) THEN rest
             ELSE IF FieldOr(line, idx_tel) # <<>>
                  THEN <<[nome |-> nome, telefone |-> telefone]>> \o rest
                  ELSE rest

\* the loop "for line in reader" of load_contacts_csv
LoadRows(rows, idx_tel, idx_nome) ==
    IF rows = <<>> THEN <<>>
    ELSE LET line == Head(rows)
             rest == LoadRows(Tail(rows), idx_tel, idx_nome)
             telefone == normalize_phone(FieldOr(line, idx_tel))
             nome == Strip(FieldOr(line, idx_nome))
         IN  IF ~AnyField(line) THEN rest
             ELSE IF telefone # <<>>
                  THEN <<[nome |-> nome, telefone |-> telefone]>> \o rest
                  ELSE rest

\* load_contacts_csv on the parsed file; raised stands for the ValueError
load_contacts_csv(t) ==
    LET idx_tel == FirstColumn(t.header, PhoneAliases)
        idx_nome == FirstColumn(t.header, NameAliases)
    IN  IF idx_tel = 0
        THEN [raised |-> TRUE, rows |-> <<>>]
        ELSE [raised |-> FALSE, rows |-> LoadRows(t.rows, idx_tel, idx_nome)]

\* contacts[:args.limit] under "if args.limit and args.limit > 0"
Truncate(cs, lim) ==
    IF lim > 0 THEN SubSeq(cs, 1, IF lim < Len(cs) THEN lim ELSE Len(cs)) ELSE cs

----------------------------------------------------------------------------
(* The result ledger and append_row *)

FIELDNAMES == <<"linha", "telefone", "status", "http", "detalhe">>

HeaderLine == [kind |-> "header", cells |-> FIELDNAMES]

RowLine(linha, telefone, status, http, detalhe) ==
    [kind |-> "row",
     cells |-> [linha |-> linha, telefone |-> telefone, status |-> status,
                http |-> http, detalhe |-> detalhe]]

AbsentFile == [exists |-> FALSE, lines |-> <<>>]
EmptyFile == [exists |-> TRUE, lines |-> <<>>]

\* a slip: the header is written on every call
append_row_header_always(f, linha, telefone, status, http, detalhe) ==
    [exists |-> TRUE,
     lines |-> Append(Append(f.lines, HeaderLine),
                      RowLine(linha, telefone, status, http, detalhe))]

append_row(f, linha, telefone, status, http, detalhe) ==
    LET file_exists == f.exists
        \* open(csv_path, "a") creates the file when it is missing
        opened == [exists |-> TRUE, lines |-> f.lines]
        getsize0 == opened.lines = <<>>
        headed == IF ~file_exists \/ getsize0
                  THEN Append(opened.lines, HeaderLine)
                  ELSE opened.lines
    IN  [exists |-> TRUE,
         lines |-> Append(headed, RowLine(linha, telefone, status, http, detalhe))]

----------------------------------------------------------------------------
(* The sender: read_image_bytes, ensure_jpeg_bytes, the size check,        *)
(* to_base64 and the POST of send_image_with_caption_base64                *)

SizeLimit == 66060288     \* 63*1024*1024

\* requests.Response.raise_for_status raises for 400 <= status_code < 600
RaisesForStatus(code) == code >= 400 /\ code < 600

NoException == [type |-> "none", hasResponse |-> FALSE, status_code |-> 0]

\* an exception object: hasResponse says that e.response is a Response
Exc(type) == [type |-> type, hasResponse |-> FALSE, status_code |-> 0]
ExcWithResponse(type, code) ==
    [type |-> type, hasResponse |-> TRUE, status_code |-> code]

\* read_image_bytes: [exc, bytes] for the image source under the answer
\* the image host gives to the GET (e.get: "neterr" or a status code record)
read_image_bytes(img, e) ==
    IF img.kind = "remote"
    THEN IF e.get.kind = "neterr"
         THEN [exc |-> Exc("ConnectionError"), bytes |-> 0, fmt |-> "none"]
         ELSE IF RaisesForStatus(e.get.code)
              THEN [exc |-> ExcWithResponse("HTTPError", e.get.code),
                    bytes |-> 0, fmt |-> "none"]
              ELSE [exc |-> NoException, bytes |-> img.size, fmt |-> img.fmt]
    ELSE IF ~img.exists
         THEN [exc |-> Exc("FileNotFoundError"), bytes |-> 0, fmt |-> "none"]
         ELSE [exc |-> NoException, bytes |-> img.size, fmt |-> img.fmt]

\* ensure_jpeg_bytes: the length of the bytes it returns. A JPEG and bytes
\* Pillow cannot open come back unchanged; anything else is re-encoded.
ensure_jpeg_bytes(img, bytes, fmt) ==
    IF fmt = "JPEG" THEN bytes
    ELSE IF fmt = "BAD" THEN bytes
    ELSE img.converted

\* what one call did: 1 for every step of the sender that ran
Did(a, n, c, b, p) ==
    [acquire |-> a, normalize |-> n, sizecheck |-> c, encode |-> b, post |-> p]

\* raise requests.HTTPError(f"{e} | body={body}") from None
PostHttpError(code) == Exc("HTTPError")

\* if len(jpg) > 63*1024*1024
TooLarge(n) == n > SizeLimit

\* send_image_with_caption_base64 for one number under the answers e of the
\* image host and of the gateway: what it returned or raised, which steps
\* ran, and what the gateway answered (seen)
send_image_with_caption_base64(number, img, e) ==
    LET rd == read_image_bytes(img, e)
        jpg == ensure_jpeg_bytes(img, rd.bytes, rd.fmt)
    IN  IF rd.exc.type # "none"
        THEN [exc |-> rd.exc, resp |-> "", did |-> Did(1, 0, 0, 0, 0),
              posted |-> FALSE, answer |-> [kind |-> "none", code |-> 0, json |-> FALSE]]
        ELSE IF TooLarge(jpg)
        THEN [exc |-> Exc("ValueError"), resp |-> "", did |-> Did(1, 1, 1, 0, 0),
              posted |-> FALSE, answer |-> [kind |-> "none", code |-> 0, json |-> FALSE]]
        ELSE IF e.post.kind = "neterr"
        THEN [exc |-> Exc("ConnectionError"), resp |-> "", did |-> Did(1, 1, 1, 1, 1),
              posted |-> TRUE, answer |-> [kind |-> "none", code |-> 0, json |-> FALSE]]
        ELSE IF RaisesForStatus(e.post.code)
        THEN [exc |-> PostHttpError(e.post.code), resp |-> "",
              did |-> Did(1, 1, 1, 1, 1), posted |-> TRUE, answer |-> e.post]
        ELSE IF ~e.post.json
        \* r.json() on a body that is not JSON
        THEN [exc |-> Exc("JSONDecodeError"), resp |-> "",
              did |-> Did(1, 1, 1, 1, 1), posted |-> TRUE, answer |-> e.post]
        ELSE [exc |-> NoException, resp |-> "parsed-body",
              did |-> Did(1, 1, 1, 1, 1), posted |-> TRUE, answer |-> e.post]

\* getattr(getattr(e, "response", None), "status_code", 0) or 0
StatusCodeOf(exc) == IF exc.hasResponse THEN exc.status_code ELSE 0

\* the answers of the image host to the GET
GetAnswers ==
    {[kind |-> "neterr", code |-> 0], [kind |-> "resp", code |-> 200],
     [kind |-> "resp", code |-> 404]}

\* the answers of the gateway to the POST to /messages
PostAnswers ==
    {[kind |-> "neterr", code |-> 0, json |-> FALSE],
     [kind |-> "resp", code |-> 200, json |-> TRUE],
     [kind |-> "resp", code |-> 201, json |-> TRUE],
     [kind |-> "resp", code |-> 204, json |-> FALSE],
     [kind |-> "resp", code |-> 422, json |-> TRUE],
     [kind |-> "resp", code |-> 500, json |-> FALSE]}

Answers(img) ==
    {[get |-> g, post |-> p] :
        g \in (IF img.kind = "remote" THEN GetAnswers
               ELSE {[kind |-> "local", code |-> 0]}),
        p \in PostAnswers}

----------------------------------------------------------------------------
(* __main__ : the checks before the loop and the dispatch loop *)

\* a slip: failures are printed but not written to the ledger
log_outcome_success_only(f, idx, tel, r) ==
    IF r.exc.type = "none"
    THEN append_row(f, idx, tel, "ENVIADO", 200, [key |-> "resp", val |-> r.resp])
    ELSE f

\* the try/except of the loop body: the append_row call of the branch taken
log_outcome(f, idx, tel, r) ==
    IF r.exc.type = "none"
    THEN append_row(f, idx, tel, "ENVIADO", 200, [key |-> "resp", val |-> r.resp])
    ELSE append_row(f, idx, tel, "FALHA", StatusCodeOf(r.exc),
                    [key |-> "erro", val |-> r.exc.type])

\* a slip: the suspension also follows the last contact
ShouldSleepAlways(d, idx, n) == d > 0

\* if DELAY > 0 and i < len(contacts)
ShouldSleep(d, idx, n) == d > 0 /\ idx < n

AddDid(a, b) ==
    Did(a.acquire + b.acquire, a.normalize + b.normalize,
        a.sizecheck + b.sizecheck, a.encode + b.encode, a.post + b.post)

NoOps == Did(0, 0, 0, 0, 0)

\* the image sources of the runs
Images ==
    {[kind |-> "local", exists |-> FALSE, fmt |-> "none", size |-> 0, converted |-> 0],
     [kind |-> "local", exists |-> TRUE, fmt |-> "JPEG",
      size |-> SizeLimit, converted |-> SizeLimit],
     [kind |-> "local", exists |-> TRUE, fmt |-> "PNG",
      size |-> SizeLimit - 1, converted |-> SizeLimit + 1],
     [kind |-> "remote", exists |-> TRUE, fmt |-> "PNG",
      size |-> SizeLimit + 1, converted |-> SizeLimit - 1],
     [kind |-> "remote", exists |-> TRUE, fmt |-> "BAD",
      size |-> SizeLimit + 1, converted |-> 0]}

Ana == <<"A", "n", "a">>
Bea == <<"B", "e", "a">>
Phone11 == <<"1", "1", "9", "9", "9", "9", "9", "0", "0", "0", "0">>
Phone5511 == <<"5", "5", "1", "1", "8", "8", "8", "8", "8", "0", "0", "0", "0">>
PhoneShort == <<"0", "1", "2", "3", "4", "5">>
NoPhone == <<"z", "z">>

\* the data rows of the input files of the runs
RunRows ==
    {<<Ana, Phone11>>, <<<<>>, NoPhone>>, <<Bea, Phone5511>>, <<Ana, PhoneShort>>}

RunHeaders == {<<" NOME", "Telefone ">>, <<"Name", "email">>}

RunTables ==
    {[header |-> h, rows |-> rs] : h \in RunHeaders, rs \in SeqsUpTo(RunRows, MaxRows)}

\* a ledger left by an earlier run
EarlierLedger ==
    append_row(AbsentFile, 1, normalize_phone(Phone11), "ENVIADO", 200,
               [key |-> "resp", val |-> "parsed-body"])

Init ==
    /\ pc = "config"
    /\ raw = <<>>
    /\ out = <<>>
    /\ cfgOK \in BOOLEAN
    /\ image \in Images
    /\ delay \in {0, 1}
    /\ limit \in 0..MaxLimit
    /\ table \in RunTables
    /\ contacts = <<>>
    /\ i = 0
    /\ ledger \in {AbsentFile, EarlierLedger}
    /\ ledger0 = ledger
    /\ hist = <<>>
    /\ ops = NoOps
    /\ sleeps = <<>>

\* if not API_V1 or not TOKEN or not SRVID: raise SystemExit
CheckConfig ==
    /\ pc = "config"
    /\ pc' = IF cfgOK THEN "image" ELSE "exit"
    /\ UNCHANGED <<raw, out, cfgOK, image, delay, limit, table, contacts, i,
                   ledger, ledger0, hist, ops, sleeps>>

\* a local image must exist: raise SystemExit otherwise
CheckImage ==
    /\ pc = "image"
    /\ pc' = IF image.kind = "local" /\ ~image.exists THEN "exit" ELSE "load"
    /\ UNCHANGED <<raw, out, cfgOK, image, delay, limit, table, contacts, i,
                   ledger, ledger0, hist, ops, sleeps>>

\* contacts = load_contacts_csv(args.file), the --limit cut, and the entry
\* into "for i, c in enumerate(contacts, start=1)"
LoadContacts ==
    /\ pc = "load"
    /\ LET r == load_contacts_csv(table)
           cs == Truncate(r.rows, limit)
       IN  IF r.raised
           THEN /\ pc' = "exit"
                /\ UNCHANGED <<contacts, i>>
           ELSE /\ contacts' = cs
                /\ i' = IF cs = <<>> THEN 0 ELSE 1
                /\ pc' = IF cs = <<>> THEN "done" ELSE "loop"
    /\ UNCHANGED <<raw, out, cfgOK, image, delay, limit, table,
                   ledger, ledger0, hist, ops, sleeps>>

\* one pass of the loop body for contact i, up to the test before the sleep
Dispatch ==
    /\ pc = "loop"
    /\ \E e \in Answers(image) :
         LET tel == contacts[i].telefone
             r == send_image_with_caption_base64(tel, image, e)
         IN  /\ ledger' = log_outcome(ledger, i, tel, r)
             /\ hist' = Append(hist, [number |-> tel, prepared |-> r.did.encode = 1,
                                      posted |-> r.posted, answer |-> r.answer])
             /\ ops' = AddDid(ops, r.did)
    /\ IF ShouldSleep(delay, i, Len(contacts))
       THEN pc' = "sleep" /\ i' = i
       ELSE IF i < Len(contacts)
            THEN pc' = "loop" /\ i' = i + 1
            ELSE pc' = "done" /\ i' = i
    /\ UNCHANGED <<raw, out, cfgOK, image, delay, limit, table, contacts,
                   ledger0, sleeps>>

\* time.sleep(DELAY) returns and the loop goes on to the next contact
Sleep ==
    /\ pc = "sleep"
    /\ sleeps' = Append(sleeps, i)
    /\ IF i < Len(contacts)
       THEN pc' = "loop" /\ i' = i + 1
       ELSE pc' = "done" /\ i' = i
    /\ UNCHANGED <<raw, out, cfgOK, image, delay, limit, table, contacts,
                   ledger, ledger0, hist, ops>>

Next == CheckConfig \/ CheckImage \/ LoadContacts \/ Dispatch \/ Sleep

Spec == Init /\ [][Next]_vars

----------------------------------------------------------------------------
(* normalize_phone on its own: every raw string is normalised once *)

InitNorm ==
    /\ pc = "norm_in"
    /\ raw \in RawInputs
    /\ out = <<>>
    /\ cfgOK = TRUE
    /\ image = [kind |-> "local", exists |-> TRUE, fmt |-> "JPEG",
                size |-> SizeLimit, converted |-> SizeLimit]
    /\ delay = 0
    /\ limit = 0
    /\ table = [header |-> <<>>, rows |-> <<>>]
    /\ contacts = <<>>
    /\ i = 0
    /\ ledger = AbsentFile
    /\ ledger0 = AbsentFile
    /\ hist = <<>>
    /\ ops = NoOps
    /\ sleeps = <<>>

NormalizeCall ==
    /\ pc = "norm_in"
    /\ out' = normalize_phone(raw)
    /\ pc' = "norm_out"
    /\ UNCHANGED <<raw, cfgOK, image, delay, limit, table, contacts, i,
                   ledger, ledger0, hist, ops, sleeps>>

NextNorm == NormalizeCall

SpecNorm == InitNorm /\ [][NextNorm]_vars

----------------------------------------------------------------------------
(* load_contacts_csv on its own *)

MaxLoadRows == 3   \* data rows of the tables given to load_contacts_csv

LoadRowKinds ==
    {<<Ana, Phone11>>, <<<<>>, NoPhone>>, <<Bea, Phone5511>>, <<<<>>, <<>>>>,
     <<Ana>>, <<Phone11, Ana>>, <<>>}

LoadHeaders ==
    {<<" NOME", "Telefone ">>, <<"Phone", "Name">>, <<"number">>,
     <<"celular", "telefone">>, <<"email", "Name", "fone">>, <<"Name", "email">>}

LoadTables ==
    {[header |-> h, rows |-> rs] :
        h \in LoadHeaders, rs \in SeqsUpTo(LoadRowKinds, MaxLoadRows)}

InitLoad ==
    /\ pc = "load_in"
    /\ table \in LoadTables
    /\ raw = <<>>
    /\ out = <<>>
    /\ cfgOK = TRUE
    /\ image = [kind |-> "local", exists |-> TRUE, fmt |-> "JPEG",
                size |-> SizeLimit, converted |-> SizeLimit]
    /\ delay = 0
    /\ limit = 0
    /\ contacts = <<>>
    /\ i = 0
    /\ ledger = AbsentFile
    /\ ledger0 = AbsentFile
    /\ hist = <<>>
    /\ ops = NoOps
    /\ sleeps = <<>>

LoadCall ==
    /\ pc = "load_in"
    /\ LET r == load_contacts_csv(table)
       IN  /\ contacts' = r.rows
           /\ pc' = IF r.raised THEN "load_raised" ELSE "load_out"
    /\ UNCHANGED <<raw, out, cfgOK, image, delay, limit, table, i,
                   ledger, ledger0, hist, ops, sleeps>>

NextLoad == LoadCall

SpecLoad == InitLoad /\ [][NextLoad]_vars

----------------------------------------------------------------------------
(* append_row on its own: calls with any arguments on one ledger path *)

IsRowLine(l) == l.kind = "row"
IsHeaderLine(l) == l.kind = "header"

RowsOf(lines) == SelectSeq(lines, IsRowLine)

LedgerOutcomes ==
    {[status |-> "ENVIADO", http |-> 200, detalhe |-> [key |-> "resp", val |-> "parsed-body"]],
     [status |-> "FALHA", http |-> 0, detalhe |-> [key |-> "erro", val |-> "HTTPError"]],
     [status |-> "FALHA", http |-> 404, detalhe |-> [key |-> "erro", val |-> "HTTPError"]]}

InitLedger ==
    /\ pc = "ledger"
    /\ ledger \in {AbsentFile, EmptyFile}
    /\ ledger0 = ledger
    /\ raw = <<>>
    /\ out = <<>>
    /\ cfgOK = TRUE
    /\ image = [kind |-> "local", exists |-> TRUE, fmt |-> "JPEG",
                size |-> SizeLimit, converted |-> SizeLimit]
    /\ delay = 0
    /\ limit = 0
    /\ table = [header |-> <<>>, rows |-> <<>>]
    /\ contacts = <<>>
    /\ i = 0
    /\ hist = <<>>
    /\ ops = NoOps
    /\ sleeps = <<>>

AppendRowCall ==
    /\ pc = "ledger"
    /\ Len(RowsOf(ledger.lines)) < MaxAppends
    /\ \E linha \in 1..2, tel \in {normalize_phone(Phone11), normalize_phone(PhoneShort)},
          o \in LedgerOutcomes :
         ledger' = append_row(ledger, linha, tel, o.status, o.http, o.detalhe)
    /\ UNCHANGED <<pc, raw, out, cfgOK, image, delay, limit, table, contacts, i,
                   ledger0, hist, ops, sleeps>>

NextLedger == AppendRowCall

SpecLedger == InitLedger /\ [][NextLedger]_vars

----------------------------------------------------------------------------
(* Properties of the dispatch loop (checked under Spec) *)

\* the record rows this run has appended to the ledger, in file order
ThisRunRows ==
    RowsOf(SubSeq(ledger.lines, Len(ledger0.lines) + 1, Len(ledger.lines)))

\* how many contacts the loop has finished
Finished ==
    CASE pc = "loop"  -> i - 1
      [] pc = "sleep" -> i
      [] pc = "done"  -> Len(contacts)
      [] OTHER        -> 0

InLoop == pc \in {"loop", "sleep", "done"}

\* C1: in every state of a run that passed the checks before the loop, the
\* rows the run has appended are the outcomes of contacts 1..k in order, one
\* row per finished contact, with linha = the contact's 1-based position,
\* its telefone and a status in {ENVIADO, FALHA}; at the end k is the number
\* of contacts, whatever the mix of successes and failures.
C1_RowsAreOutcomesInOrder ==
    InLoop =>
        /\ Len(ThisRunRows) = Finished
        /\ Len(hist) = Finished
        /\ Finished <= Len(contacts)
        /\ \A k \in 1..Len(ThisRunRows) :
              /\ ThisRunRows[k].cells.linha = k
              /\ ThisRunRows[k].cells.telefone = contacts[k].telefone
              /\ ThisRunRows[k].cells.status \in {"ENVIADO", "FALHA"}
        /\ (pc = "done" => Len(ThisRunRows) = Len(contacts))

C1_Witness ==
    /\ pc = "done"
    /\ Len(contacts) >= 2
    /\ Len(ThisRunRows) = Len(contacts)
    /\ ThisRunRows[1].cells.status = "FALHA"
    /\ ThisRunRows[2].cells.status = "ENVIADO"

\* C2: for every contact whose dispatch fails the row has status FALHA and
\* its http column is the status code the gateway returned for the POST when
\* the gateway answered non-2xx, and 0 when the gateway gave no response.
C2_FailureRowCarriesGatewayCode ==
    InLoop =>
        \A k \in 1..Len(ThisRunRows) :
            ThisRunRows[k].cells.status = "FALHA" =>
                /\ (hist[k].answer.kind = "resp" /\ RaisesForStatus(hist[k].answer.code))
                       => ThisRunRows[k].cells.http = hist[k].answer.code
                /\ hist[k].answer.kind = "none" => ThisRunRows[k].cells.http = 0

\* C3: a failure of the image preparation (image not found, fetch failure,
\* final bytes larger than 66,060,288) aborts the run before any contact is
\* dispatched: no POST is made and no row is appended for any contact.
C3_PreparationFailureAbortsRun ==
    (\E k \in 1..Len(hist) : ~hist[k].prepared) =>
        /\ ops.post = 0
        /\ ThisRunRows = <<>>

\* C4: the image payload is built once per run: acquisition, JPEG
\* normalisation, size check and base64 encoding each happen once, however
\* many contacts are sent to.
C4_PayloadBuiltOncePerRun ==
    (pc = "done" /\ Len(contacts) >= 1) =>
        /\ ops.acquire <= 1
        /\ ops.normalize <= 1
        /\ ops.sizecheck <= 1
        /\ ops.encode <= 1

\* C6: whenever the gateway answers the POST for a contact with a 2xx
\* status, the contact's row has status ENVIADO, http 200 and the parsed
\* response body as detail; an accepted contact is never logged as FALHA.
C6_AcceptedContactLoggedAsSent ==
    InLoop =>
        \A k \in 1..Len(ThisRunRows) :
            (hist[k].answer.kind = "resp" /\ hist[k].answer.code \in 200..299) =>
                /\ ThisRunRows[k].cells.status = "ENVIADO"
                /\ ThisRunRows[k].cells.http = 200
                /\ ThisRunRows[k].cells.detalhe = [key |-> "resp", val |-> "parsed-body"]

OnlyDigits(s) == \A k \in 1..Len(s) : IsDigit(s[k])

\* the numbers of this run: the loaded contacts, the numbers sent to the
\* gateway and the telefone column of the rows appended
RunNumbers ==
    {contacts[k].telefone : k \in 1..Len(contacts)}
        \cup {hist[k].number : k \in 1..Len(hist)}
        \cup {ThisRunRows[k].cells.telefone : k \in 1..Len(ThisRunRows)}

\* C8 as stated: every number loaded, sent and logged consists of digits
\* only and begins with "55".
C8_EveryNumberHasCountryCode ==
    \A n \in RunNumbers : OnlyDigits(n) /\ StartsWith(n, CountryCode)

\* C8 as amended: every number loaded, sent and logged is non-empty, consists
\* of digits only, does not begin with "0", and begins with "55" whenever it
\* has at least 10 digits; a shorter number carries no country code.
C8_NumbersDigitsAndPrefixedFromTenDigits ==
    \A n \in RunNumbers :
        /\ n # <<>>
        /\ OnlyDigits(n)
        /\ n[1] # "0"
        /\ Len(n) >= MinPrefixLen => StartsWith(n, CountryCode)

C8_Witness ==
    /\ pc = "done"
    /\ Len(ThisRunRows) = 2
    /\ Len(ThisRunRows[1].cells.telefone) < MinPrefixLen
    /\ Len(ThisRunRows[2].cells.telefone) > MinPrefixLen
    /\ hist[2].posted

\* C10: with a positive delay the loop suspends only between consecutive
\* contacts: after contact k's row is appended and before contact k+1 is
\* dispatched, for k = 1..n-1, after successes and failures alike and never
\* after the last contact; with a delay of 0 it never suspends.
C10_SleepOnlyBetweenContacts ==
    InLoop =>
        /\ delay = 0 => sleeps = <<>> /\ pc # "sleep"
        /\ \A k \in 1..Len(sleeps) : sleeps[k] = k
        /\ Len(sleeps) < Len(contacts) \/ contacts = <<>>
        /\ delay > 0 =>
              /\ pc = "loop" => Len(sleeps) = i - 1 /\ Len(ThisRunRows) = i - 1
              /\ pc = "sleep" =>
                    /\ Len(sleeps) = i - 1
                    /\ Len(ThisRunRows) = i
                    /\ Len(hist) = i
                    /\ i < Len(contacts)
              /\ pc = "done" =>
                    Len(sleeps) = (IF contacts = <<>> THEN 0 ELSE Len(contacts) - 1)

C10_Witness ==
    /\ pc = "done"
    /\ delay > 0
    /\ Len(contacts) >= 2
    /\ Len(sleeps) = Len(contacts) - 1
    /\ ThisRunRows[1].cells.status = "FALHA"

----------------------------------------------------------------------------
(* Properties of normalize_phone (checked under SpecNorm) *)

\* the digit characters of s, in order
DigitsOf(s) == SelectSeq(s, IsDigit)

\* d without its leading zeros: d from its first non-zero position on
WithoutLeadingZeros(d) ==
    LET nz == {k \in 1..Len(d) : d[k] # "0"}
    IN  IF nz = {} THEN <<>>
        ELSE SubSeq(d, CHOOSE k \in nz : \A m \in nz : k <= m, Len(d))

\* the reference result of the claim
ReferenceNumber(s) ==
    LET core == WithoutLeadingZeros(DigitsOf(s))
    IN  IF Len(core) >= 10 /\ (Len(core) < 2 \/ core[1] # "5" \/ core[2] # "5")
        THEN <<"5", "5">> \o core
        ELSE core

\* C9: normalize_phone returns the reference result (the digits of the input
\* in order, leading zeros removed, "55" prepended exactly when at least 10
\* digits remain that do not start with "55"); the result is empty exactly
\* when the input has no digit other than zeros, never starts with "0",
\* never gets a second "55", and normalising it again changes nothing.
C9_NormalizeMatchesReference ==
    pc = "norm_out" =>
        /\ out = ReferenceNumber(raw)
        /\ (out = <<>>) <=> (\A k \in 1..Len(raw) : IsDigit(raw[k]) => raw[k] = "0")
        /\ out # <<>> => out[1] # "0"
        /\ StartsWith(WithoutLeadingZeros(DigitsOf(raw)), <<"5", "5">>)
               => out = WithoutLeadingZeros(DigitsOf(raw))
        /\ normalize_phone(out) = out

C9_Witness ==
    /\ pc = "norm_out"
    /\ Len(raw) >= 2
    /\ raw[1] = "+"
    /\ raw[2] = "0"
    /\ Len(out) = Len(raw)
    /\ StartsWith(out, CountryCode)

----------------------------------------------------------------------------
(* Properties of load_contacts_csv (checked under SpecLoad) *)

\* the raw phone cell of data row j: the cell under the first header cell
\* that is a phone alias, or the empty string when the row is too short
PhoneCell(j) ==
    LET cols == {c \in 1..Len(table.header) :
                    HeaderCanon(table.header[c]) \in PhoneAliases}
        col == CHOOSE c \in cols : \A m \in cols : c <= m
    IN  IF col <= Len(table.rows[j]) THEN table.rows[j][col] ELSE <<>>

\* the data rows whose normalised phone is not empty
KeptRows == {j \in 1..Len(table.rows) : normalize_phone(PhoneCell(j)) # <<>>}

\* the k-th kept row, counting in input order
KthKept(k) == CHOOSE j \in KeptRows : Cardinality({m \in KeptRows : m <= j}) = k

\* C7: for a table with a recognised phone column load_contacts_csv returns
\* exactly the data rows whose normalised phone is non-empty, in input
\* order: no contact has an empty phone, no such row is dropped, and the
\* relative order is kept.
C7_LoadKeepsExactlyRowsWithPhone ==
    pc = "load_out" =>
        /\ Len(contacts) = Cardinality(KeptRows)
        /\ \A k \in 1..Len(contacts) :
              /\ contacts[k].telefone # <<>>
              /\ contacts[k].telefone = normalize_phone(PhoneCell(KthKept(k)))

C7_Witness ==
    /\ pc = "load_out"
    /\ table.rows = <<<<Ana, Phone11>>, <<<<>>, NoPhone>>, <<Bea, Phone5511>>>>
    /\ Len(contacts) = 2
    /\ contacts[1].nome = Ana
    /\ contacts[2].nome = Bea

----------------------------------------------------------------------------
(* Properties of append_row (checked under SpecLedger) *)

\* the file has one header line, and it is the first line
OneHeaderFirst(f) ==
    f.lines # <<>> =>
        /\ IsHeaderLine(f.lines[1])
        /\ \A k \in 2..Len(f.lines) : IsRowLine(f.lines[k])

\* one append: the header is written iff the file was missing or empty, the
\* lines already there are unchanged, one record line is added at the end
AppendStep ==
    ledger' # ledger =>
        LET old == ledger.lines
            new == ledger'.lines
            headerDue == ~ledger.exists \/ old = <<>>
            grown == IF headerDue THEN 2 ELSE 1
        IN  /\ ledger'.exists
            /\ Len(new) = Len(old) + grown
            /\ SubSeq(new, 1, Len(old)) = old
            /\ headerDue => new[Len(old) + 1] = HeaderLine
            /\ IsRowLine(new[Len(new)])

\* C5: after any sequence of append_row calls the ledger holds exactly one
\* header line, as its first line: an append writes the header iff the file
\* did not exist or was empty at that call, leaves the lines written before
\* unchanged and adds exactly one record line at the end.
C5_OneHeaderAppendOnly ==
    [](ledger.exists => OneHeaderFirst(ledger)) /\ [][AppendStep]_vars

C5_Witness ==
    /\ pc = "ledger"
    /\ ledger0 = EmptyFile
    /\ Len(RowsOf(ledger.lines)) = 3
    /\ Len(ledger.lines) = 4
    /\ ledger.lines[2].cells.linha = 2
    /\ ledger.lines[3].cells.linha = 1

====
